---- MODULE Spec2Model ----
(***************************************************************************)
(* The VideoPlayer widget of src/src/video_player.rs as a state machine:   *)
(* the shared playback state it reads and writes through `inner`, the      *)
(* redraw tick (on_event), the paint pass (draw), and the actors around it *)
(* (the decode pipeline that produces frames, subtitles and bus messages,  *)
(* the application that pauses, loops and restarts, the host that delivers *)
(* redraws).                                                               *)
(*                                                                         *)
(* The specifications run the same actions under different environments:   *)
(* DrainSpec (the pipeline posts bus messages and subtitles), FrameSpec    *)
(* (the pipeline produces frames and subtitles, the clock runs and the     *)
(* host paints), LiveSpec (end-of-stream messages only, with a fair host), *)
(* PlaySpec (frames, subtitles and end-of-stream messages, a pausing       *)
(* application and a painting host), RestartSpec (the same pipeline with   *)
(* an application that loops and restarts) and GeomSpec (layout and paint  *)
(* rectangle over the sizes, policies and bounds of the model).            *)
(***************************************************************************)
EXTENDS Integers, Sequences, FiniteSets, TLC

\* ---------------------------------------------------------------- bounds
\* The bus holds at most MaxBus undrained messages.
MaxBus == 3
\* The producer writes at most MaxWrites frames in a run.
MaxWrites == 2
\* The video's natural size and the widget's bounds have whole sides of
\* 1..MaxDim (and the 1920x1080 video in 800x800 bounds besides).
MaxDim == 3
\* The monotonic clock is read as 0..MaxTime.
MaxTime == 2

\* ------------------------------------------------------------- constants
\* Duration::from_millis(32): the delay of the idle branch's redraw request.
IdlePollMs == 32

VARIABLES
    upload_frame,     \* inner.upload_frame: AtomicBool, "a fresh frame is ready"
    upload_text,      \* inner.upload_text: AtomicBool, "fresh subtitle text is ready"
    is_eos,           \* inner.is_eos
    paused,           \* inner.paused()
    looping,          \* inner.looping
    restart_stream,   \* inner.restart_stream (the flag, not the method)
    bus,              \* inner.bus: the messages posted and not yet popped
    handle_opt,       \* inner.handle_opt: the cached image handle (converted path)
    redraw_pending,   \* the host holds a redraw request of the widget
    frame_writes,     \* history: frames the producer has written
    frame_claims,     \* history: paint passes whose swap returned true
    new_frame_emits,  \* history: on_new_frame messages published
    tick,             \* what the on_event call of the last step did (NoTick otherwise)
    drawn,            \* what the draw call of the last step did (NoDraw otherwise)
    geom,             \* the video's size, the widget's content_fit, width and
                      \* height, and the limits and bounds the host lays it out in
    laid,             \* the size of the node the last layout call returned
    now,              \* Instant::now(): the monotonic clock
    last_frame_time   \* inner.last_frame_time: when the last frame was made ready

vars == << upload_frame, upload_text, is_eos, paused, looping, restart_stream,
           bus, handle_opt, redraw_pending, frame_writes, frame_claims,
           new_frame_emits, tick, drawn, geom, laid, now, last_frame_time >>

geometry == << geom, laid >>
clock == << now, last_frame_time >>

\* ----------------------------------------------------------- vocabulary
Callbacks ==
    { "on_end_of_stream", "on_new_frame", "on_subtitle_text",
      "on_error", "on_missing_plugin", "on_warning" }

\* The callback sets a widget is built with in this model (the builder makes
\* any subset possible): all of them, none, and two of them.
RegisteredChoices == { Callbacks, {}, {"on_error", "on_new_frame"} }

\* Bus messages, by what the drain's match tells apart. "MissingPlugin" is an
\* Element message for which MissingPluginMessage::is holds, "Element" one for
\* which it does not.
Messages == { "Error", "Eos", "Warning", "MissingPlugin", "Element" }

NoMsg == "NoMsg"

MessageType(msg) == IF msg = "MissingPlugin" THEN "Element" ELSE msg

\* The type filter the drain passes to pop_filtered.
DrainFilter == { "Error", "Eos" }

\* ------------------------------------------------ the tick: on_event
\* The locks on_event holds from its first statement to its return: the
\* write guard `inner` of the shared playback state.
HeldInOnEvent == { "video" }

\* The lock the subtitle branch holds while it builds and publishes the
\* message: the guard `text` of inner.subtitle_text.
HeldInSubtitleBranch == { "subtitle_text" }

\* shell.publish(message) of an optional callback: nothing when the callback
\* is not registered. Each published message records the locks held then.
Publish(published, registered, cb, locks) ==
    IF cb \in registered
    THEN Append(published, [cb |-> cb, locks |-> locks])
    ELSE published

\* Mutant of ActiveTick: a pending restart does not make the tick active.
ActiveTick_IgnoresRestart(rs, eos, p) == ~eos /\ ~p

\* Mutant of ActiveTick: a paused stream still ticks as active.
ActiveTick_IgnoresPause(rs, eos, p) == rs \/ ~eos

\* The condition of the active branch.
ActiveTick(rs, eos, p) == rs \/ (~eos /\ ~p)

\* Mutant of TakeRestartRequest: the flag is read and left as it is.
TakeRestartRequest_Keeps(rs) == [ local |-> rs, flag |-> rs ]

\* if inner.restart_stream { restart_stream = true; inner.restart_stream =
\* false }: the local the drain starts with, and the flag lowered.
TakeRestartRequest(rs) == [ local |-> rs, flag |-> FALSE ]

\* gst::Bus::pop_filtered: the first message whose type is in `types`; the
\* messages posted before it are discarded, and all of them when none matches.
PopFiltered(q, types) ==
    LET hits == { i \in 1..Len(q) : MessageType(q[i]) \in types }
    IN  IF hits = {}
        THEN [msg |-> NoMsg, rest |-> << >>]
        ELSE LET i == CHOOSE i \in hits : \A j \in hits : i <= j
             IN  [msg |-> q[i], rest |-> SubSeq(q, i + 1, Len(q))]

\* Mutant of EosIntent: each end of stream flips the intent of the one before.
EosIntent_Flips(acc, loop) ==
    IF loop
    THEN [acc EXCEPT !.restart_stream = ~@]
    ELSE [acc EXCEPT !.eos_pause = ~@]

\* Mutant of EosIntent: end of stream always asks for the pause.
EosIntent_AlwaysPause(acc, loop) == [acc EXCEPT !.eos_pause = TRUE]

\* The Eos arm's intent: restart when looping, pause otherwise.
EosIntent(acc, loop) ==
    IF loop
    THEN [acc EXCEPT !.restart_stream = TRUE]
    ELSE [acc EXCEPT !.eos_pause = TRUE]

\* Mutant of ErrorArm: an error also asks for the end-of-stream pause.
ErrorArm_Pauses(acc, registered) ==
    [acc EXCEPT !.published = Publish(@, registered, "on_error", {"video"}),
                !.eos_pause = TRUE]

\* The Error arm: publish on_error, nothing else.
ErrorArm(acc, registered) ==
    [acc EXCEPT !.published = Publish(@, registered, "on_error", HeldInOnEvent)]

\* The body of the drain loop: the match on msg.view(). acc holds the locals
\* restart_stream and eos_pause, what the shell was given, and the messages
\* handled so far.
HandleMessage(msg, acc, registered, loop) ==
    LET seen == [acc EXCEPT !.handled = Append(@, msg)]
    IN  CASE MessageType(msg) = "Error" -> ErrorArm(seen, registered)
          [] MessageType(msg) = "Element" ->
                IF msg = "MissingPlugin"
                THEN [seen EXCEPT !.published =
                        Publish(@, registered, "on_missing_plugin", HeldInOnEvent)]
                ELSE seen
          [] MessageType(msg) = "Eos" ->
                EosIntent([seen EXCEPT !.published =
                             Publish(@, registered, "on_end_of_stream", HeldInOnEvent)],
                          loop)
          [] MessageType(msg) = "Warning" ->
                [seen EXCEPT !.published =
                    Publish(@, registered, "on_warning", HeldInOnEvent)]
          [] OTHER -> seen

\* while let Some(msg) = inner.bus.pop_filtered(..) { match .. }
\* (the pop and the locals are bound as values, so that each is computed once
\* per turn of the loop)
RECURSIVE Drain(_, _, _, _)
Drain(q, acc, registered, loop) ==
    LET Turn(pop, locals) ==
            IF pop.msg = NoMsg
            THEN [bus |-> pop.rest, acc |-> locals]
            ELSE Drain(pop.rest,
                       HandleMessage(pop.msg, locals, registered, loop),
                       registered, loop)
    IN  CHOOSE result \in { Turn(pop, locals) :
                                pop \in { PopFiltered(q, DrainFilter) },
                                locals \in { acc } } : TRUE

\* Mutant of ResolveIntents: the pause is looked at before the restart.
ResolveIntents_PauseFirst(restart, eos_pause) ==
    IF eos_pause THEN "eos_pause"
    ELSE IF restart THEN "restart"
    ELSE "none"

\* After the drain: restart if the local restart_stream is set, else pause at
\* end of stream if eos_pause is set.
ResolveIntents(restart, eos_pause) ==
    IF restart THEN "restart"
    ELSE IF eos_pause THEN "eos_pause"
    ELSE "none"

\* Mutant of EosPause: is_eos is raised and the pipeline is not paused.
EosPause_KeepsPlaying(eos, p) == [is_eos |-> TRUE, paused |-> p]

\* inner.is_eos = true; inner.set_paused(true)
EosPause(eos, p) == [is_eos |-> TRUE, paused |-> TRUE]

\* inner.restart_stream(): seeks to the start of the stream. It never raises
\* is_eos or paused and leaves the restart flag down; whether it lowers is_eos
\* and paused is not fixed, so `reset` covers both.
RestartStream(eos, p, reset) ==
    IF reset
    THEN [is_eos |-> FALSE, paused |-> FALSE]
    ELSE [is_eos |-> eos, paused |-> p]

\* The redraw request of the active branch.
ActiveRedraw == << [kind |-> "NextFrame", delay |-> 0] >>

\* Mutant of IdleRedraw: the idle branch requests no redraw.
IdleRedraw_None == << >>

\* The redraw request of the idle branch: At(now + 32 ms).
IdleRedraw == << [kind |-> "At", delay |-> IdlePollMs] >>

NoTick ==
    [ kind |-> "none", status |-> "none", registered |-> {},
      pre |-> [is_eos |-> FALSE, paused |-> FALSE, looping |-> FALSE,
               restart_stream |-> FALSE, bus |-> << >>,
               upload_frame |-> FALSE, upload_text |-> FALSE],
      handled |-> << >>, published |-> << >>, redraws |-> << >>,
      intent |-> "none", restart |-> "none", reset |-> FALSE,
      text_free |-> TRUE ]

NoDraw == [ kind |-> "none", upload_frame |-> FALSE, av_offset |-> FALSE,
            image |-> FALSE, offset |-> 0, time_lock_ok |-> TRUE,
            elapsed |-> 0, frame_lock_ok |-> TRUE, cached |-> FALSE,
            rect |-> << >> ]

NoLayout == [ kind |-> "none", node |-> << >> ]

PreState ==
    [ is_eos |-> is_eos, paused |-> paused, looping |-> looping,
      restart_stream |-> restart_stream, bus |-> bus,
      upload_frame |-> upload_frame, upload_text |-> upload_text ]

\* if inner.upload_frame.load(SeqCst) { publish on_new_frame }: a load, the
\* flag is left as it is.
NewFrameStep(published, registered, ready) ==
    IF ready
    THEN Publish(published, registered, "on_new_frame", HeldInOnEvent)
    ELSE published

\* The subtitle step: only with on_subtitle_text registered is upload_text
\* swapped to false; the message is published when the swap returned true and
\* try_lock succeeded, inside the scope of the lock guard.
SubtitleStep(published, registered, ready, text_free) ==
    IF "on_subtitle_text" \in registered
    THEN [ upload_text |-> FALSE,
           published |->
             IF ready /\ text_free
             THEN Publish(published, registered, "on_subtitle_text",
                          HeldInOnEvent \cup HeldInSubtitleBranch)
             ELSE published ]
    ELSE [ upload_text |-> ready, published |-> published ]

CountEmits(published) ==
    Cardinality({ i \in 1..Len(published) : published[i].cb = "on_new_frame" })

\* The active branch of a redraw tick, as one step. Its inputs: the callbacks
\* the widget was built with, whether the seek of a restart succeeds, what the
\* restart does to is_eos and paused, and whether subtitle_text can be locked.
ActiveBranch(registered, seek_ok, reset, text_free) ==
    LET d == Drain(bus,
                   [ published |-> << >>,
                     restart_stream |-> TakeRestartRequest(restart_stream).local,
                     eos_pause |-> FALSE, handled |-> << >> ],
                   registered, looping)
        intent == ResolveIntents(d.acc.restart_stream, d.acc.eos_pause)
        flags == CASE intent = "restart" -> RestartStream(is_eos, paused, reset)
                   [] intent = "eos_pause" -> EosPause(is_eos, paused)
                   [] OTHER -> [is_eos |-> is_eos, paused |-> paused]
        pub1 == NewFrameStep(d.acc.published, registered, upload_frame)
        sub == SubtitleStep(pub1, registered, upload_text, text_free)
        requests == ActiveRedraw
    IN  \* an input the branch does not consult takes one value only
        /\ intent = "restart" \/ (seek_ok /\ ~reset)
        /\ ("on_subtitle_text" \in registered /\ upload_text) \/ text_free
        /\ restart_stream' = TakeRestartRequest(restart_stream).flag
        /\ bus' = d.bus
        /\ is_eos' = flags.is_eos
        /\ paused' = flags.paused
        /\ upload_text' = sub.upload_text
        /\ redraw_pending' = (Len(requests) > 0)
        /\ new_frame_emits' =
             \* counted up to MaxWrites + 1, "more than every frame written"
             IF new_frame_emits + CountEmits(sub.published) <= MaxWrites
             THEN new_frame_emits + CountEmits(sub.published)
             ELSE MaxWrites + 1
        /\ tick' = [ kind |-> "active", status |-> "Captured",
                     registered |-> registered, pre |-> PreState,
                     handled |-> d.acc.handled, published |-> sub.published,
                     redraws |-> requests, intent |-> intent,
                     restart |-> IF intent = "restart"
                                 THEN (IF seek_ok THEN "ok" ELSE "err")
                                 ELSE "none",
                     reset |-> (intent = "restart" /\ reset),
                     text_free |-> text_free ]
        /\ UNCHANGED << geometry, clock >>
        /\ UNCHANGED << upload_frame, looping, handle_opt, frame_writes, frame_claims >>

\* The idle branch of a redraw tick: only the delayed redraw request.
IdleBranch(registered) ==
    LET requests == IdleRedraw
    IN  /\ redraw_pending' = (Len(requests) > 0)
        /\ tick' = [ NoTick EXCEPT !.kind = "idle", !.status = "Captured",
                                   !.registered = registered, !.pre = PreState,
                                   !.redraws = requests ]
        /\ UNCHANGED << geometry, clock >>
        /\ UNCHANGED << upload_frame, upload_text, is_eos, paused, looping,
                        restart_stream, bus, handle_opt, frame_writes,
                        frame_claims, new_frame_emits >>

\* on_event(Window(RedrawRequested)): the host delivers a redraw it holds a
\* request for.
RedrawTick ==
    /\ redraw_pending
    /\ drawn' = NoDraw
    /\ \E registered \in RegisteredChoices :
         IF ActiveTick(restart_stream, is_eos, paused)
         THEN \E seek_ok \in BOOLEAN, reset \in BOOLEAN, text_free \in BOOLEAN :
                  ActiveBranch(registered, seek_ok, reset, text_free)
         ELSE IdleBranch(registered)

\* on_event with any other event: Status::Ignored, nothing published or
\* requested, the host's pending request is untouched.
OtherEvent ==
    /\ tick' = [ NoTick EXCEPT !.kind = "ignored", !.status = "Ignored" ]
    /\ drawn' = NoDraw
    /\ UNCHANGED << geometry, clock >>
    /\ UNCHANGED << upload_frame, upload_text, is_eos, paused, looping,
                    restart_stream, bus, handle_opt, redraw_pending,
                    frame_writes, frame_claims, new_frame_emits >>

\* ------------------------------------------------ f32 arithmetic
\* An f32 value is the pair << m, e >> that stands for m * 2^e, m odd (zero is
\* << 0, 0 >>). Every operation takes the exact result and rounds it to the
\* nearest value with a 24-bit significand, ties to even, as IEEE 754 binary32
\* does; the sizes of this model stay clear of subnormals and infinities.
SignificandBits == 24

Abs(i) == IF i < 0 THEN 0 - i ELSE i

RECURSIVE Gcd(_, _)
Gcd(a, b) == IF b = 0 THEN a ELSE Gcd(b, a % b)

RECURSIVE Normal(_, _)
Normal(m, e) ==
    IF m = 0 THEN << 0, 0 >>
    ELSE IF m % 256 = 0 THEN Normal(m \div 256, e + 8)
    ELSE IF m % 2 = 0 THEN Normal(m \div 2, e + 1)
    ELSE << m, e >>

\* The bits by which the magnitude n exceeds a 24-bit significand.
RECURSIVE Excess(_, _)
Excess(n, s) ==
    IF n \div 2^s < 2^SignificandBits THEN s ELSE Excess(n, s + 1)

\* m * 2^e, m any integer, rounded to f32.
RoundExact(m, e) ==
    LET n == Abs(m)
        s == Excess(n, 0)
        q == n \div 2^s
        r == n % 2^s
        up == s > 0 /\ (2 * r > 2^s \/ (2 * r = 2^s /\ q % 2 = 1))
        magnitude == IF up THEN q + 1 ELSE q
    IN  Normal(IF m < 0 THEN 0 - magnitude ELSE magnitude, e + s)

\* The bits a quotient n / d below 2^24 is shifted left by to fill 24 bits.
RECURSIVE Shift(_, _, _)
Shift(n, d, k) ==
    IF (n * 2^k) \div d >= 2^(SignificandBits - 1) THEN k
    ELSE IF (n * 2^k) \div d < 2^(SignificandBits - 9) THEN Shift(n, d, k + 8)
    ELSE Shift(n, d, k + 1)

\* (n / d) * 2^e, n and d positive, rounded to f32.
RoundQuotient(n, d, e) ==
    LET k == Shift(n, d, 0)
        q == (n * 2^k) \div d
        r == (n * 2^k) % d
        up == 2 * r > d \/ (2 * r = d /\ q % 2 = 1)
    IN  Normal(IF up THEN q + 1 ELSE q, e - k)

\* `as f32` of an i32 (exact below 2^24).
F32(i) == RoundExact(i, 0)

Neg(a) == << 0 - a[1], a[2] >>

Add(a, b) ==
    LET e == IF a[2] < b[2] THEN a[2] ELSE b[2]
    IN  RoundExact(a[1] * 2^(a[2] - e) + b[1] * 2^(b[2] - e), e)

Sub(a, b) == Add(a, Neg(b))

Mul(a, b) == RoundExact(a[1] * b[1], a[2] + b[2])

Div(a, b) ==
    IF a[1] = 0 THEN << 0, 0 >>
    ELSE LET g == Gcd(Abs(a[1]), Abs(b[1]))
             r == RoundQuotient(Abs(a[1]) \div g, Abs(b[1]) \div g, a[2] - b[2])
         IN  IF (a[1] < 0) = (b[1] < 0) THEN r ELSE Neg(r)

\* a < b
Less(a, b) ==
    LET e == IF a[2] < b[2] THEN a[2] ELSE b[2]
    IN  a[1] * 2^(a[2] - e) < b[1] * 2^(b[2] - e)

\* f32::min and f32::max
Min(a, b) == IF Less(b, a) THEN b ELSE a

Max(a, b) == IF Less(a, b) THEN b ELSE a

Two == F32(2)

\* ------------------------------------------------ sizes and lengths
ContentFits == { "Contain", "Cover", "Fill", "None", "ScaleDown" }

\* iced::Size::new(w as f32, h as f32)
SizeOf(wh) == [ width |-> F32(wh[1]), height |-> F32(wh[2]) ]

Shrink == [ kind |-> "Shrink", amount |-> 0 ]

Fill == [ kind |-> "Fill", amount |-> 0 ]

Fixed(amount) == [ kind |-> "Fixed", amount |-> amount ]

\* ContentFit::fit(content, bounds) of iced: the size the content takes in
\* the bounds under each policy.
Fit(content_fit, content, bounds) ==
    LET content_ar == Div(content.width, content.height)
        bounds_ar == Div(bounds.width, bounds.height)
        by_height ==
            [ bounds EXCEPT !.width =
                Div(Mul(content.width, bounds.height), content.height) ]
        by_width ==
            [ bounds EXCEPT !.height =
                Div(Mul(content.height, bounds.width), content.width) ]
    IN  CASE content_fit = "Contain" ->
               IF Less(content_ar, bounds_ar) THEN by_height ELSE by_width
          [] content_fit = "Cover" ->
               IF Less(bounds_ar, content_ar) THEN by_height ELSE by_width
          [] content_fit = "Fill" -> bounds
          [] content_fit = "None" -> content
          [] content_fit = "ScaleDown" ->
               IF Less(content_ar, bounds_ar) /\ Less(bounds.height, content.height)
               THEN by_height
               ELSE IF Less(bounds.width, content.width)
               THEN by_width
               ELSE content

\* One axis of Limits::resolve of iced: Fill takes the maximum, a fixed length
\* and a shrinking one are clamped between the minimum and the maximum.
ResolveAxis(length, lo, hi, intrinsic) ==
    CASE length.kind = "Fill" -> hi
      [] length.kind = "Fixed" -> Max(Min(F32(length.amount), hi), lo)
      [] length.kind = "Shrink" -> Max(Min(intrinsic, hi), lo)

\* limits.resolve(self.width, self.height, image_size)
Resolve(limits, width, height, intrinsic_size) ==
    [ width |-> ResolveAxis(width, limits.min.width, limits.max.width,
                            intrinsic_size.width),
      height |-> ResolveAxis(height, limits.min.height, limits.max.height,
                             intrinsic_size.height) ]

\* ------------------------------------------------ layout
\* Mutant of ShrinkAxis: a shrinking axis takes the resolved size too.
ShrinkAxis_Raw(length, raw, full) == raw

\* One axis of the node's size: a shrinking axis takes the smaller of the
\* resolved and the fitted length, any other the resolved length.
ShrinkAxis(length, raw, full) ==
    IF length.kind = "Shrink" THEN Min(raw, full) ELSE raw

\* layout: the size of the node, with the two sizes it is made from.
LayoutSize(video_size, content_fit, width, height, limits) ==
    LET image_size == SizeOf(video_size)
        raw_size == Resolve(limits, width, height, image_size)
        full_size == Fit(content_fit, image_size, raw_size)
    IN  [ image_size |-> image_size, raw_size |-> raw_size,
          full_size |-> full_size,
          final_size |->
            [ width |-> ShrinkAxis(width, raw_size.width, full_size.width),
              height |-> ShrinkAxis(height, raw_size.height, full_size.height) ] ]

\* ------------------------------------------------ the paint rectangle
\* Mutant of FinalSize: the video is painted at its natural size.
FinalSize_Unscaled(image_size, scale) == image_size

\* iced::Size::new(image_size.width * scale.x, image_size.height * scale.y)
FinalSize(image_size, scale) ==
    [ width |-> Mul(image_size.width, scale.x),
      height |-> Mul(image_size.height, scale.y) ]

\* Rectangle::center_x and center_y of iced: the origin plus half the side.
Center(bounds) ==
    [ x |-> Add(bounds.x, Div(bounds.width, Two)),
      y |-> Add(bounds.y, Div(bounds.height, Two)) ]

\* Mutant of Position: every policy is placed as ContentFit::None is.
Position_AsNone(content_fit, bounds, image_size, adjusted_fit, final_size) ==
    [ x |-> Add(bounds.x,
                Div(Sub(image_size.width, adjusted_fit.width), Two)),
      y |-> Add(bounds.y,
                Div(Sub(image_size.height, adjusted_fit.height), Two)) ]

\* The top-left corner of the paint rectangle.
Position(content_fit, bounds, image_size, adjusted_fit, final_size) ==
    IF content_fit = "None"
    THEN [ x |-> Add(bounds.x,
                     Div(Sub(image_size.width, adjusted_fit.width), Two)),
           y |-> Add(bounds.y,
                     Div(Sub(image_size.height, adjusted_fit.height), Two)) ]
    ELSE [ x |-> Sub(Center(bounds).x, Div(final_size.width, Two)),
           y |-> Sub(Center(bounds).y, Div(final_size.height, Two)) ]

\* drawing_bounds, with the sizes it is made from.
DrawingBounds(video_size, content_fit, bounds) ==
    LET image_size == SizeOf(video_size)
        adjusted_fit ==
            Fit(content_fit, image_size,
                [ width |-> bounds.width, height |-> bounds.height ])
        scale == [ x |-> Div(adjusted_fit.width, image_size.width),
                   y |-> Div(adjusted_fit.height, image_size.height) ]
        final_size == FinalSize(image_size, scale)
        position == Position(content_fit, bounds, image_size, adjusted_fit,
                             final_size)
    IN  [ image_size |-> image_size, adjusted_fit |-> adjusted_fit,
          x |-> position.x, y |-> position.y,
          width |-> final_size.width, height |-> final_size.height ]

\* ------------------------------------------------ the paint pass: draw
\* The frame handoff of draw on the converted path (not(feature = "wgpu")).
\* Mutant of SwapFrameReady: a load instead of a swap.
SwapFrameReady_Load(ready) == [ prev |-> ready, next |-> ready ]

\* inner.upload_frame.swap(false, SeqCst): the value before, and false after.
SwapFrameReady(ready) == [ prev |-> ready, next |-> FALSE ]

\* The converted path's cache: replaced on a claim by the converted frame, or
\* by None when the frame mutex is poisoned; kept otherwise.
NextHandle(handle, claimed, frame_lock_ok) ==
    IF claimed
    THEN (IF frame_lock_ok THEN "Some" ELSE "None")
    ELSE handle

\* Mutant of AvOffset: nothing is subtracted from the clock reading.
AvOffset_SinceStart(reading, frame_time, time_lock_ok, elapsed) ==
    reading + elapsed

\* Instant::now() - last_frame_time. last_frame_time is read under its mutex;
\* with the mutex poisoned a clock reading of its own stands in for it, taken
\* `elapsed` before the reading it is subtracted from.
AvOffset(reading, frame_time, time_lock_ok, elapsed) ==
    (reading + elapsed) - (IF time_lock_ok THEN frame_time ELSE reading)

\* The widget's bounds as the f32 rectangle layout.bounds() returns.
Bounds(b) ==
    [ x |-> F32(b.x), y |-> F32(b.y),
      width |-> F32(b.width), height |-> F32(b.height) ]

\* A 1920x1080 video in a widget as the builder leaves it (Contain, both
\* lengths Shrink), laid out within 800x800 and painted in 800x800 bounds.
DefaultGeom ==
    [ video_size |-> << 1920, 1080 >>, content_fit |-> "Contain",
      width |-> Shrink, height |-> Shrink, limits_max |-> << 800, 800 >>,
      bounds |-> [ x |-> 0, y |-> 0, width |-> 800, height |-> 800 ] ]

\* The paint rectangle of that widget, computed once.
DefaultRect ==
    DrawingBounds(DefaultGeom.video_size, DefaultGeom.content_fit,
                  Bounds(DefaultGeom.bounds))

\* draw: the paint rectangle, the swap of upload_frame, the av offset of a
\* claiming pass, and the converted path's image. Its inputs: whether the frame
\* and the last_frame_time mutexes can be locked, and the time that passes
\* between the two clock readings of the poisoned case.
Draw ==
    \E frame_lock_ok \in BOOLEAN, time_lock_ok \in BOOLEAN, elapsed \in 0..1 :
        LET rect == IF geom = DefaultGeom
                    THEN DefaultRect
                    ELSE DrawingBounds(geom.video_size, geom.content_fit,
                                       Bounds(geom.bounds))
            swap == SwapFrameReady(upload_frame)
            handle == NextHandle(handle_opt, swap.prev, frame_lock_ok)
        IN  \* an input the pass does not consult takes one value only
            /\ swap.prev \/ (frame_lock_ok /\ time_lock_ok)
            /\ (swap.prev /\ ~time_lock_ok) \/ elapsed = 0
            /\ now + elapsed <= MaxTime
            /\ now' = now + elapsed
            /\ upload_frame' = swap.next
            /\ frame_claims' = IF swap.prev THEN frame_claims + 1 ELSE frame_claims
            /\ handle_opt' = handle
            /\ drawn' = [ kind |-> "draw", upload_frame |-> swap.prev,
                          av_offset |-> swap.prev, image |-> (handle = "Some"),
                          offset |-> IF swap.prev
                                     THEN AvOffset(now, last_frame_time,
                                                   time_lock_ok, elapsed)
                                     ELSE 0,
                          time_lock_ok |-> time_lock_ok, elapsed |-> elapsed,
                          frame_lock_ok |-> frame_lock_ok,
                          cached |-> (handle_opt = "Some"),
                          rect |-> rect ]
            /\ tick' = NoTick
            /\ UNCHANGED << geometry, last_frame_time >>
            /\ UNCHANGED << upload_text, is_eos, paused, looping, restart_stream,
                            bus, redraw_pending, frame_writes, new_frame_emits >>

\* layout: the host asks the widget for its size within the limits.
Layout ==
    /\ laid' = [ kind |-> "layout",
                 node |-> LayoutSize(geom.video_size, geom.content_fit,
                                     geom.width, geom.height,
                                     [ min |-> SizeOf(<< 0, 0 >>),
                                       max |-> SizeOf(geom.limits_max) ]) ]
    /\ tick' = NoTick
    /\ drawn' = NoDraw
    /\ UNCHANGED << geom, clock >>
    /\ UNCHANGED << upload_frame, upload_text, is_eos, paused, looping,
                    restart_stream, bus, handle_opt, redraw_pending,
                    frame_writes, frame_claims, new_frame_emits >>

\* ------------------------------------------------ the decode pipeline
\* The producer stores a frame, stamps last_frame_time and sets upload_frame.
ProducerWriteFrame ==
    /\ frame_writes < MaxWrites
    /\ upload_frame' = TRUE
    /\ frame_writes' = frame_writes + 1
    /\ last_frame_time' = now
    /\ tick' = NoTick
    /\ drawn' = NoDraw
    /\ UNCHANGED << geometry, now >>
    /\ UNCHANGED << upload_text, is_eos, paused, looping, restart_stream, bus,
                    handle_opt, redraw_pending, frame_claims, new_frame_emits >>

\* The producer stores subtitle text and sets upload_text.
ProducerWriteSubtitle ==
    /\ upload_text' = TRUE
    /\ tick' = NoTick
    /\ drawn' = NoDraw
    /\ UNCHANGED << geometry, clock >>
    /\ UNCHANGED << upload_frame, is_eos, paused, looping, restart_stream, bus,
                    handle_opt, redraw_pending, frame_writes, frame_claims,
                    new_frame_emits >>

\* The pipeline posts a message on the bus.
PostMessage(msg) ==
    /\ Len(bus) < MaxBus
    /\ bus' = Append(bus, msg)
    /\ tick' = NoTick
    /\ drawn' = NoDraw
    /\ UNCHANGED << geometry, clock >>
    /\ UNCHANGED << upload_frame, upload_text, is_eos, paused, looping,
                    restart_stream, handle_opt, redraw_pending, frame_writes,
                    frame_claims, new_frame_emits >>

PushBusEvent == \E msg \in Messages : PostMessage(msg)

\* ------------------------------------------------ the clock
\* Time passes.
ClockAdvance ==
    /\ now < MaxTime
    /\ now' = now + 1
    /\ tick' = NoTick
    /\ drawn' = NoDraw
    /\ UNCHANGED << geometry, last_frame_time >>
    /\ UNCHANGED << upload_frame, upload_text, is_eos, paused, looping,
                    restart_stream, bus, handle_opt, redraw_pending,
                    frame_writes, frame_claims, new_frame_emits >>

\* ------------------------------------------------ the application
\* set_paused, set_looping and a restart request, made between ticks.
ExternalSetPaused ==
    /\ \E b \in BOOLEAN : paused' = b
    /\ tick' = NoTick
    /\ drawn' = NoDraw
    /\ UNCHANGED << geometry, clock >>
    /\ UNCHANGED << upload_frame, upload_text, is_eos, looping, restart_stream,
                    bus, handle_opt, redraw_pending, frame_writes, frame_claims,
                    new_frame_emits >>

ExternalSetLooping ==
    /\ \E b \in BOOLEAN : looping' = b
    /\ tick' = NoTick
    /\ drawn' = NoDraw
    /\ UNCHANGED << geometry, clock >>
    /\ UNCHANGED << upload_frame, upload_text, is_eos, paused, restart_stream,
                    bus, handle_opt, redraw_pending, frame_writes, frame_claims,
                    new_frame_emits >>

ExternalRequestRestart ==
    /\ restart_stream' = TRUE
    /\ tick' = NoTick
    /\ drawn' = NoDraw
    /\ UNCHANGED << geometry, clock >>
    /\ UNCHANGED << upload_frame, upload_text, is_eos, paused, looping, bus,
                    handle_opt, redraw_pending, frame_writes, frame_claims,
                    new_frame_emits >>

\* ------------------------------------------------ the specification
\* A new session: playing, not looping, nothing produced yet, and the host's
\* first redraw of the window pending.
Fresh ==
    /\ upload_frame = FALSE
    /\ upload_text = FALSE
    /\ is_eos = FALSE
    /\ paused = FALSE
    /\ looping = FALSE
    /\ restart_stream = FALSE
    /\ bus = << >>
    /\ handle_opt = "None"
    /\ redraw_pending = TRUE
    /\ frame_writes = 0
    /\ frame_claims = 0
    /\ new_frame_emits = 0
    /\ tick = NoTick
    /\ drawn = NoDraw
    /\ laid = NoLayout
    /\ now = 0
    /\ last_frame_time = 0

Init == Fresh /\ geom = DefaultGeom

\* The widget with a pipeline that posts bus messages and subtitles but has
\* produced no frame yet.
DrainNext ==
    \/ RedrawTick
    \/ OtherEvent
    \/ ProducerWriteSubtitle
    \/ PushBusEvent
    \/ ExternalSetPaused
    \/ ExternalSetLooping
    \/ ExternalRequestRestart

DrainSpec == Init /\ [][DrainNext]_vars

\* The widget with a pipeline that produces frames and subtitles and posts
\* nothing on the bus, a running clock and a host that paints.
FrameNext ==
    \/ RedrawTick
    \/ OtherEvent
    \/ Draw
    \/ ProducerWriteFrame
    \/ ProducerWriteSubtitle
    \/ ClockAdvance
    \/ ExternalSetPaused
    \/ ExternalSetLooping
    \/ ExternalRequestRestart

FrameSpec == Init /\ [][FrameNext]_vars

\* The widget with a pipeline that posts only end-of-stream messages, and a
\* host that delivers every redraw it holds a request for.
LiveNext ==
    \/ RedrawTick
    \/ OtherEvent
    \/ PostMessage("Eos")
    \/ ExternalSetPaused
    \/ ExternalSetLooping
    \/ ExternalRequestRestart

LiveSpec == Init /\ [][LiveNext]_vars /\ WF_vars(RedrawTick)

\* The widget with a pipeline that produces frames and subtitles and posts
\* end-of-stream messages, an application that pauses and resumes, and a host
\* that paints.
PlayNext ==
    \/ RedrawTick
    \/ Draw
    \/ ProducerWriteFrame
    \/ ProducerWriteSubtitle
    \/ PostMessage("Eos")
    \/ ExternalSetPaused

PlaySpec == Init /\ [][PlayNext]_vars

\* The widget with that pipeline and an application that pauses, loops and
\* requests restarts, between paint passes.
RestartNext ==
    \/ RedrawTick
    \/ ProducerWriteFrame
    \/ ProducerWriteSubtitle
    \/ PostMessage("Eos")
    \/ ExternalSetPaused
    \/ ExternalSetLooping
    \/ ExternalRequestRestart

RestartSpec == Init /\ [][RestartNext]_vars

\* The widget's geometry alone: any video size, policy, lengths, limits and
\* bounds of the model, laid out and painted with nothing playing.
Dims == 1..MaxDim

Lengths == { Shrink, Fill, Fixed(2) }

Origins == { << 0, 0 >>, << 2, 1 >> }

PaintInputs ==
    { [ DefaultGeom EXCEPT !.video_size = v, !.content_fit = f,
                           !.bounds = [ x |-> o[1], y |-> o[2],
                                        width |-> b[1], height |-> b[2] ] ] :
        v \in Dims \X Dims, f \in ContentFits, o \in Origins, b \in Dims \X Dims }

LayoutInputs ==
    { [ DefaultGeom EXCEPT !.video_size = v, !.content_fit = f,
                           !.width = w, !.height = h, !.limits_max = m ] :
        v \in Dims \X Dims, f \in ContentFits, w \in Lengths, h \in Lengths,
        m \in Dims \X Dims }

GeomInit == Fresh /\ geom \in { DefaultGeom } \cup PaintInputs \cup LayoutInputs

GeomNext ==
    \/ Draw
    \/ Layout

GeomSpec == GeomInit /\ [][GeomNext]_vars

\* ------------------------------------------------------------ properties
IsTick == tick.kind \in { "active", "idle" }

Handled(msg) == \E i \in 1..Len(tick.handled) : tick.handled[i] = msg

PublishedCallbacks == [ i \in 1..Len(tick.published) |-> tick.published[i].cb ]

\* C1: a paint pass claims a frame exactly when upload_frame was true at its
\* swap, and leaves it false; upload_frame is raised only by a producer write;
\* two paint passes in a row never both claim; and the claims never outnumber
\* the producer's writes.
C1_ClaimAtMostOncePerWrite ==
    /\ [](frame_claims <= frame_writes)
    /\ [][ /\ drawn'.kind = "draw" =>
                /\ drawn'.upload_frame = upload_frame
                /\ (frame_claims' = frame_claims + 1) = upload_frame
                /\ ~upload_frame'
           /\ (~upload_frame /\ upload_frame') => frame_writes' = frame_writes + 1
           /\ (drawn.kind = "draw" /\ drawn'.kind = "draw") =>
                ~(drawn.upload_frame /\ drawn'.upload_frame) ]_vars

\* A paint pass that found nothing to claim, every written frame having been
\* claimed by an earlier pass.
C1_Witness ==
    /\ drawn.kind = "draw"
    /\ ~drawn.upload_frame
    /\ frame_writes = MaxWrites
    /\ frame_claims = frame_writes

\* C2: an active tick that handles an end-of-stream message while looping
\* restarts the stream, ends with the restart flag down, and raises neither
\* paused nor is_eos.
C2_LoopingEosRestarts ==
    (tick.kind = "active" /\ Handled("Eos") /\ tick.pre.looping) =>
        /\ tick.intent = "restart"
        /\ tick.restart \in { "ok", "err" }
        /\ ~restart_stream
        /\ paused => tick.pre.paused
        /\ is_eos => tick.pre.is_eos

\* A tick that restarted only because of the end of stream it handled.
C2_Witness ==
    /\ tick.kind = "active"
    /\ Handled("Eos")
    /\ tick.pre.looping
    /\ ~tick.pre.restart_stream
    /\ tick.restart = "ok"

\* C3: an active tick that handles an end-of-stream message while not looping
\* and with no restart requested ends with is_eos and paused set; from then
\* on only the application's set_paused or restart request changes is_eos,
\* paused or the restart flag, and every redraw tick until then is idle and
\* requests the next redraw in 32 ms.
C3_EosPausesThenIdlePolls ==
    /\ []( (tick.kind = "active" /\ Handled("Eos") /\ ~tick.pre.looping
              /\ ~tick.pre.restart_stream)
           => (is_eos /\ paused /\ ~restart_stream /\ tick.intent = "eos_pause") )
    /\ [][ (is_eos /\ paused /\ ~restart_stream) =>
             /\ (tick'.kind \in { "active", "idle" }) =>
                  /\ tick'.kind = "idle"
                  /\ tick'.redraws = << [kind |-> "At", delay |-> 32] >>
             /\ ~(ExternalSetPaused \/ ExternalRequestRestart) =>
                  (is_eos' /\ paused' /\ ~restart_stream') ]_vars

\* An idle tick at end of stream.
C3_Witness ==
    /\ tick.kind = "idle"
    /\ tick.pre.is_eos
    /\ tick.pre.paused
    /\ is_eos
    /\ paused

\* The callback the drain's match has for a message, if any.
CallbackOf(msg) ==
    CASE msg = "Error" -> << "on_error" >>
      [] msg = "Eos" -> << "on_end_of_stream" >>
      [] msg = "Warning" -> << "on_warning" >>
      [] msg = "MissingPlugin" -> << "on_missing_plugin" >>
      [] OTHER -> << >>

RECURSIVE CallbacksFor(_)
CallbacksFor(q) ==
    IF q = << >> THEN << >> ELSE CallbackOf(Head(q)) \o CallbacksFor(Tail(q))

DrainCallbacks ==
    SelectSeq(PublishedCallbacks,
              LAMBDA cb : cb \in { "on_error", "on_end_of_stream", "on_warning",
                                   "on_missing_plugin" })

\* C4: with every callback registered, an active tick removes every queued
\* message and publishes the callbacks of the Error, Eos, Warning and
\* missing-plugin messages in the order the messages were queued, once each.
C4_DrainHandlesEveryMessageInOrder ==
    (tick.kind = "active" /\ tick.registered = Callbacks) =>
        /\ bus = << >>
        /\ DrainCallbacks = CallbacksFor(tick.pre.bus)

\* C5: in an active tick with a restart intent (the flag set at tick start, or
\* an end of stream handled while looping) and an end-of-stream pause intent
\* (an end of stream handled while not looping), the restart is performed and
\* neither is_eos nor paused is raised.
C5_RestartBeatsEosPause ==
    ( /\ tick.kind = "active"
      /\ tick.pre.restart_stream \/ (Handled("Eos") /\ tick.pre.looping)
      /\ Handled("Eos") /\ ~tick.pre.looping ) =>
        /\ tick.intent = "restart"
        /\ tick.restart \in { "ok", "err" }
        /\ is_eos => tick.pre.is_eos
        /\ paused => tick.pre.paused

\* A tick that started playing, with a restart requested, and handled an end
\* of stream while not looping.
C5_Witness ==
    /\ tick.kind = "active"
    /\ tick.pre.restart_stream
    /\ ~tick.pre.is_eos
    /\ ~tick.pre.paused
    /\ Handled("Eos")
    /\ ~tick.pre.looping
    /\ ~is_eos
    /\ ~paused

\* C6: every redraw tick makes exactly one redraw request: NextFrame when, at
\* tick start, a restart was requested or the stream was neither at its end
\* nor paused, and At(now + 32 ms) otherwise; so after a redraw tick the host
\* always holds a request.
C6_OneRedrawRequestPerTick ==
    IsTick =>
        /\ Len(tick.redraws) = 1
        /\ redraw_pending
        /\ IF tick.pre.restart_stream \/ (~tick.pre.is_eos /\ ~tick.pre.paused)
           THEN tick.redraws[1] = [kind |-> "NextFrame", delay |-> 0]
           ELSE tick.redraws[1] = [kind |-> "At", delay |-> 32]

\* A tick made active by the restart request alone: paused, and NextFrame
\* requested.
C6_Witness ==
    /\ tick.kind = "active"
    /\ tick.pre.restart_stream
    /\ tick.pre.paused
    /\ ~tick.pre.is_eos
    /\ tick.redraws = << [kind |-> "NextFrame", delay |-> 0] >>

\* C7: with the host delivering every redraw it holds a request for, a
\* restart request is always followed by an active tick that sees it, and a
\* stream that is neither paused nor at its end is always followed by an
\* active tick unless the application pauses it again first; no frame needs
\* to be produced for that.
C7_StateChangeEventuallyObserved ==
    /\ restart_stream ~> (tick.kind = "active" /\ tick.pre.restart_stream)
    /\ (~is_eos /\ ~paused) ~> (tick.kind = "active" \/ paused)

\* An active tick at end of stream and paused, brought about by a restart
\* request, with no frame ever produced.
C7_Witness ==
    /\ tick.kind = "active"
    /\ tick.pre.is_eos
    /\ tick.pre.paused
    /\ tick.pre.restart_stream
    /\ frame_writes = 0

\* C8: on_new_frame is published at most once per producer frame write: the
\* messages published never outnumber the frames written.
C8_NewFrameAtMostOncePerWrite == new_frame_emits <= frame_writes

\* C9: no callback message is built or published while the widget holds the
\* write lock of the shared playback state or the subtitle-text lock.
C9_NoLockHeldAtCallback ==
    \A i \in 1..Len(tick.published) : tick.published[i].locks = {}

\* C10: an active tick whose handled messages are all Error messages
\* publishes on_error once per message when it is registered, restarts only
\* if a restart was requested before the tick, ends with looping as it was,
\* the restart flag down, and is_eos and paused as that requested restart
\* leaves them (as they were at tick start when none was requested), and
\* requests NextFrame.
C10_ErrorLeavesPlaybackState ==
    ( /\ tick.kind = "active"
      /\ tick.handled /= << >>
      /\ \A i \in 1..Len(tick.handled) : tick.handled[i] = "Error" ) =>
        /\ Len(SelectSeq(PublishedCallbacks, LAMBDA cb : cb = "on_error"))
             = (IF "on_error" \in tick.registered THEN Len(tick.handled) ELSE 0)
        /\ (tick.intent = "restart") = tick.pre.restart_stream
        /\ tick.intent \in { "restart", "none" }
        /\ looping = tick.pre.looping
        /\ ~restart_stream
        /\ [is_eos |-> is_eos, paused |-> paused] =
             (IF tick.pre.restart_stream
              THEN RestartStream(tick.pre.is_eos, tick.pre.paused, tick.reset)
              ELSE [is_eos |-> tick.pre.is_eos, paused |-> tick.pre.paused])
        /\ tick.redraws = << [kind |-> "NextFrame", delay |-> 0] >>

\* A playing tick that handled two Error messages with on_error registered.
C10_Witness ==
    /\ tick.kind = "active"
    /\ tick.handled = << "Error", "Error" >>
    /\ "on_error" \in tick.registered
    /\ ~tick.pre.restart_stream
    /\ ~is_eos
    /\ ~paused

\* ------------------------------------------------ geometry, exactly
\* f32 values compared as the real numbers they stand for.
LessEq(a, b) == ~Less(b, a)

\* The product of two values, not rounded.
Times(a, b) == Normal(a[1] * b[1], a[2] + b[2])

\* The distance of two values, not rounded.
Distance(a, b) ==
    LET e == IF a[2] < b[2] THEN a[2] ELSE b[2]
    IN  Normal(Abs(a[1] * 2^(a[2] - e) - b[1] * 2^(b[2] - e)), e)

\* a differs from the positive b by at most b / 2^bits.
Within(a, b, bits) ==
    LET d == Distance(a, b)
    IN  LessEq(Normal(d[1], d[2] + bits), b)

\* The relative error two roundings of f32 leave at most: 2^-22.
RoundingBits == 22

IsPaint == drawn.kind = "draw"

PaintBounds == Bounds(geom.bounds)

Plus(a, b) ==
    LET e == IF a[2] < b[2] THEN a[2] ELSE b[2]
    IN  Normal(a[1] * 2^(a[2] - e) + b[1] * 2^(b[2] - e), e)

\* Half a value, exactly.
Halved(a) == Normal(a[1], a[2] - 1)

\* The centre of the bounds, as a pair of real numbers.
PaintCenter ==
    [ x |-> Plus(PaintBounds.x, Halved(PaintBounds.width)),
      y |-> Plus(PaintBounds.y, Halved(PaintBounds.height)) ]

\* The rounding error of one f32 operation is at most 2^-24 of its operands.
HalfUlpBits == 24

IsLayout == laid.kind = "layout"

\* C13: on each axis of the layout, a Shrink length gives the smaller of the
\* resolved and the content-fitted length, never more than the fitted one, and
\* any other length gives exactly the resolved length.
C13_ShrinkTakesTheSmaller ==
    IsLayout =>
        /\ IF geom.width.kind = "Shrink"
           THEN /\ LessEq(laid.node.final_size.width, laid.node.raw_size.width)
                /\ LessEq(laid.node.final_size.width, laid.node.full_size.width)
                /\ laid.node.final_size.width \in
                     { laid.node.raw_size.width, laid.node.full_size.width }
           ELSE laid.node.final_size.width = laid.node.raw_size.width
        /\ IF geom.height.kind = "Shrink"
           THEN /\ LessEq(laid.node.final_size.height, laid.node.raw_size.height)
                /\ LessEq(laid.node.final_size.height, laid.node.full_size.height)
                /\ laid.node.final_size.height \in
                     { laid.node.raw_size.height, laid.node.full_size.height }
           ELSE laid.node.final_size.height = laid.node.raw_size.height

\* A layout with a shrinking width and a fixed height, whose fitted width is
\* smaller than the resolved one.
C13_Witness ==
    /\ IsLayout
    /\ geom.width.kind = "Shrink"
    /\ geom.height.kind = "Fixed"
    /\ Less(laid.node.full_size.width, laid.node.raw_size.width)
    /\ laid.node.final_size.width = laid.node.full_size.width
    /\ laid.node.final_size.height = F32(geom.height.amount)

\* C14: every frame a paint pass claims while the stream is neither paused
\* nor at its end has been announced by an on_new_frame message: the claims
\* of such passes never outnumber the messages published.
C14_ClaimedFrameIsEmitted ==
    [][ (drawn'.kind = "draw" /\ drawn'.upload_frame /\ ~is_eos' /\ ~paused')
            => frame_claims' <= new_frame_emits' ]_vars

\* A redraw tick taken with the stream paused or at its end and no restart
\* requested.
IsIdleTick ==
    /\ IsTick
    /\ tick.pre.is_eos \/ tick.pre.paused
    /\ ~tick.pre.restart_stream

\* on_event left everything the drain and the handoff work on as it was.
TickLeftAll ==
    /\ bus = tick.pre.bus
    /\ tick.handled = << >>
    /\ tick.published = << >>
    /\ tick.intent = "none"
    /\ tick.restart = "none"
    /\ is_eos = tick.pre.is_eos
    /\ paused = tick.pre.paused
    /\ looping = tick.pre.looping
    /\ restart_stream = tick.pre.restart_stream
    /\ upload_frame = tick.pre.upload_frame
    /\ upload_text = tick.pre.upload_text

\* C15 as stated: an idle tick leaves everything as it was, and the paint pass
\* that follows it consumes neither upload_frame nor upload_text.
C15_IdleConsumesNothing ==
    /\ [](IsIdleTick => TickLeftAll)
    /\ [][ (IsIdleTick /\ drawn'.kind = "draw") =>
                /\ upload_frame' = upload_frame
                /\ upload_text' = upload_text ]_vars

\* C15: on an idle tick on_event removes no bus message, publishes nothing,
\* restarts and pauses nothing and leaves every flag, upload_frame and
\* upload_text included, as it was; the paint pass that follows leaves the bus,
\* the playback flags and upload_text alone too, but claims upload_frame
\* whenever it is set, as a paint pass does in any playback state.
C15_IdleTickConsumesNothing ==
    /\ [](IsIdleTick => TickLeftAll)
    /\ [][ (IsIdleTick /\ drawn'.kind = "draw") =>
                /\ drawn'.upload_frame = upload_frame
                /\ ~upload_frame'
                /\ upload_text' = upload_text
                /\ bus' = bus
                /\ is_eos' = is_eos
                /\ paused' = paused
                /\ looping' = looping
                /\ restart_stream' = restart_stream ]_vars

\* An idle tick of a paused stream with a message on the bus, a frame and a
\* subtitle ready.
C15_Witness ==
    /\ tick.kind = "idle"
    /\ tick.pre.paused
    /\ bus /= << >>
    /\ upload_frame
    /\ upload_text
    /\ "on_new_frame" \in tick.registered

\* C16: after an active tick that found upload_text set and could not lock
\* subtitle_text, the subtitle is still pending: upload_text is still set, so
\* that a later tick publishes it without another write of the producer.
C16_ContendedSubtitleStaysPending ==
    ( /\ tick.kind = "active"
      /\ "on_subtitle_text" \in tick.registered
      /\ tick.pre.upload_text
      /\ ~tick.text_free ) =>
        /\ \A i \in 1..Len(tick.published) :
              tick.published[i].cb /= "on_subtitle_text"
        /\ upload_text

\* C17: on the converted path, once a handle is cached every paint pass draws
\* an image and the cache stays filled, a pass that claims a frame and cannot
\* lock it included.
C17_HandleKeptUntilNextSuccess ==
    [][ (drawn'.kind = "draw" /\ handle_opt = "Some") =>
            /\ drawn'.image
            /\ handle_opt' = "Some" ]_vars

\* The clock never runs behind the time stamp of the last frame.
ClockIsMonotonic == last_frame_time <= now

\* C18 as stated: a paint pass reports an av offset exactly when it claimed a
\* frame; the offset is the clock minus last_frame_time, never negative; and
\* with last_frame_time's lock unavailable the offset reported is zero.
C18_OffsetZeroWithoutTimestamp ==
    IsPaint =>
        /\ drawn.av_offset = drawn.upload_frame
        /\ (drawn.upload_frame /\ drawn.time_lock_ok) =>
              /\ drawn.offset = now - last_frame_time
              /\ drawn.offset >= 0
        /\ (drawn.upload_frame /\ ~drawn.time_lock_ok) => drawn.offset = 0

\* C18: a paint pass reports an av offset exactly when it claimed a frame; the
\* offset is the clock minus last_frame_time, never negative; and with
\* last_frame_time's lock unavailable the offset is the time between two
\* readings of the clock, the one that stands in for last_frame_time and the
\* one it is subtracted from: never negative, and zero only when the clock
\* did not advance between them.
C18_OffsetOfClaimingPass ==
    /\ ClockIsMonotonic
    /\ IsPaint =>
        /\ drawn.av_offset = drawn.upload_frame
        /\ (drawn.upload_frame /\ drawn.time_lock_ok) =>
              /\ drawn.offset = now - last_frame_time
              /\ drawn.offset >= 0
        /\ (drawn.upload_frame /\ ~drawn.time_lock_ok) =>
              /\ drawn.offset = drawn.elapsed
              /\ drawn.offset >= 0
              /\ drawn.offset <= now - last_frame_time

\* A claiming paint pass that could not read last_frame_time, with the clock
\* advancing between its two readings, of a frame stamped after the start.
C18_Witness ==
    /\ IsPaint
    /\ drawn.upload_frame
    /\ ~drawn.time_lock_ok
    /\ drawn.offset = 1
    /\ last_frame_time > 0

Published(cb) ==
    \E i \in 1..Len(tick.published) : tick.published[i].cb = cb

\* C19: a tick whose restart fails ends with the restart flag down and with
\* is_eos and paused not raised, and still does the rest of its work: it
\* publishes on_new_frame for a ready frame and on_subtitle_text for a ready
\* subtitle it can lock, and requests NextFrame. A tick restarts only on a
\* flag that was up when it started or on an Eos it handled while looping, and
\* the flag is raised by nothing but an external request.
C19_FailedRestartIsNotRetried ==
    /\ []( (tick.kind = "active" /\ tick.restart = "err") =>
            /\ ~restart_stream
            /\ is_eos => tick.pre.is_eos
            /\ paused => tick.pre.paused
            /\ Published("on_new_frame") =
                 (tick.pre.upload_frame /\ "on_new_frame" \in tick.registered)
            /\ Published("on_subtitle_text") =
                 ( /\ tick.pre.upload_text
                   /\ "on_subtitle_text" \in tick.registered
                   /\ tick.text_free )
            /\ tick.redraws = << [kind |-> "NextFrame", delay |-> 0] >> )
    /\ [][ (tick'.kind = "active" /\ tick'.intent = "restart") =>
                \/ restart_stream
                \/ /\ looping
                   /\ \E i \in 1..Len(tick'.handled) : tick'.handled[i] = "Eos" ]_vars
    /\ [][ (~restart_stream /\ restart_stream') => ExternalRequestRestart ]_vars

\* A tick that took an external restart request, failed to seek, and went on
\* to publish the frame and the subtitle that were ready.
C19_Witness ==
    /\ tick.kind = "active"
    /\ tick.restart = "err"
    /\ tick.pre.restart_stream
    /\ ~restart_stream
    /\ Published("on_new_frame")
    /\ Published("on_subtitle_text")
    /\ tick.pre.paused
    /\ paused

EosHandled ==
    Cardinality({ i \in 1..Len(tick.handled) : tick.handled[i] = "Eos" })

\* What the drain of a bus that holds one Eos leaves in its locals, started
\* from the state the last tick started from.
OneEosDrain ==
    Drain(<< "Eos" >>,
          [ published |-> << >>, restart_stream |-> tick.pre.restart_stream,
            eos_pause |-> FALSE, handled |-> << >> ],
          tick.registered, tick.pre.looping).acc

OneEosIntent == ResolveIntents(OneEosDrain.restart_stream, OneEosDrain.eos_pause)

\* C20: a tick that handled several Eos messages published on_end_of_stream
\* once for each, and resolved to the one restart or the one pause, and ended
\* with the is_eos, paused and restart flag, that a tick handling a single
\* Eos from the same state resolves to and ends with.
C20_SeveralEosAsOne ==
    (tick.kind = "active" /\ EosHandled >= 2) =>
        /\ Cardinality({ i \in 1..Len(tick.published) :
                            tick.published[i].cb = "on_end_of_stream" })
             = (IF "on_end_of_stream" \in tick.registered THEN EosHandled ELSE 0)
        /\ tick.intent \in { "restart", "eos_pause" }
        /\ tick.intent = OneEosIntent
        /\ (tick.restart /= "none") = (tick.intent = "restart")
        /\ [is_eos |-> is_eos, paused |-> paused] =
             (IF OneEosIntent = "restart"
              THEN RestartStream(tick.pre.is_eos, tick.pre.paused, tick.reset)
              ELSE EosPause(tick.pre.is_eos, tick.pre.paused))
        /\ ~restart_stream

\* A playing, non-looping tick that handled three Eos messages and paused at
\* the end of the stream.
C20_Witness ==
    /\ tick.kind = "active"
    /\ tick.handled = << "Eos", "Eos", "Eos" >>
    /\ "on_end_of_stream" \in tick.registered
    /\ Len(tick.published) = 3
    /\ tick.intent = "eos_pause"
    /\ is_eos
    /\ paused

====
